---- MODULE Spec2Model ----
(***************************************************************************)
(* A model of skutil's feature-selection resolvers:                        *)
(*   - filter_collinearity and MulticollinearityFilterer.fit (select.py)   *)
(*   - LinearCombinationFilterer.fit_transform and _enum_lc (combos.py)    *)
(*                                                                         *)
(* Correlations are exact rationals written as integers in units of 1/2    *)
(* (0 = 0.0, 1 = 0.5, 2 = 1.0), so that every float sum the code forms is  *)
(* exact; a mean is written in units of 1/(2 * MeanScale).  NaN is -1.     *)
(* Column names are the integers 1..n.                                     *)
(***************************************************************************)
EXTENDS Integers, Sequences, FiniteSets, TLC

(* ------------------------------ bounds --------------------------------- *)
\* largest number of columns of a frame or correlation matrix
MaxCols == 4
\* largest number of off-diagonal pairs of a correlation matrix that are not 0.0
MaxNonZero == 2
\* number of rows, and largest number of columns, of a frame handed to
\* LinearCombinationFilterer or to one of the simple selectors
MaxRows == 2
MaxLcCols == 3
\* the count of passes of its elimination loop stops growing at this value
MaxIters == 4
\* the count of scans of filter_collinearity stops growing at this value
MaxScans == 6

(* ------------------------------ values --------------------------------- *)
NaN == -1
IsNull(v) == v = NaN
\* float comparison: false as soon as an operand is NaN
Lt(a, b) == ~IsNull(a) /\ ~IsNull(b) /\ a < b
Gt(a, b) == ~IsNull(a) /\ ~IsNull(b) /\ a > b

\* the non-NaN correlation levels, and the thresholds a caller passes
Corrs == {0, 1, 2}
Thresholds == {1, 2}
\* the self-correlation on the diagonal of DataFrame.corr()
SelfCorr == 2

RECURSIVE Factorial(_)
Factorial(n) == IF n <= 1 THEN 1 ELSE n * Factorial(n - 1)
\* every mean of at most MaxCols values is an integer in units of 1/MeanScale
MeanScale == Factorial(MaxCols + 1)

Range(s) == {s[k] : k \in 1..Len(s)}
Last(s) == s[Len(s)]
Front(s) == SubSeq(s, 1, Len(s) - 1)
Iota(n) == [k \in 1..n |-> k]

\* python's None for the ``cols`` parameter, and a given list of names
None == [isNone |-> TRUE, names |-> <<>>]
Some(names) == [isNone |-> FALSE, names |-> names]

(* --------------------------- pandas frames ----------------------------- *)
\* A DataFrame: row labels, column labels, values[row position][col position]
Frame(rows, cols, vals) == [rows |-> rows, cols |-> cols, vals |-> vals]
NoFrame == Frame(<<>>, <<>>, <<>>)

\* position of a label in an index (0 when absent)
PosOf(idx, nm) ==
    IF \E k \in 1..Len(idx) : idx[k] = nm
    THEN CHOOSE k \in 1..Len(idx) : idx[k] = nm /\ \A j \in 1..(k - 1) : idx[j] # nm
    ELSE 0

\* s with the element at position k removed
RemoveAt(s, k) == SubSeq(s, 1, k - 1) \o SubSeq(s, k + 1, Len(s))

\* c[nm]: the column as a Series, a sequence of (index label, value)
Column(m, nm) ==
    LET p == PosOf(m.cols, nm)
    IN [r \in 1..Len(m.rows) |-> [k |-> m.rows[r], v |-> m.vals[r][p]]]

SeriesIndex(s) == [j \in 1..Len(s) |-> s[j].k]
SeriesValues(s) == [j \in 1..Len(s) |-> s[j].v]

\* Series.drop(nm); the caller checks that nm is in the index (KeyError otherwise)
SeriesDrop(s, nm) == RemoveAt(s, PosOf(SeriesIndex(s), nm))

\* Series.sort_values(na_position='first'): ascending, NaN first, ties in
\* their original order (numpy sorts runs of at most 16 elements by insertion).
\* The entry at position j goes to place 1 + (the number of entries that sort
\* before it); NaN, being -1, sorts before every correlation.
SortValues(s) ==
    LET Place(j) ==
            1 + Cardinality({k \in 1..Len(s) :
                                \/ s[k].v < s[j].v
                                \/ s[k].v = s[j].v /\ k < j})
    IN [q \in 1..Len(s) |-> s[CHOOSE j \in 1..Len(s) : Place(j) = q]]

\* mutant: the column stays
DropColumn_Keeps(m, nm) == m

\* DataFrame.drop(nm, axis=1) and DataFrame.drop(nm, axis=0)
DropColumn(m, nm) ==
    LET p == PosOf(m.cols, nm)
    IN Frame(m.rows, RemoveAt(m.cols, p),
             [r \in 1..Len(m.rows) |-> RemoveAt(m.vals[r], p)])

\* mutant: the row stays
DropRow_Keeps(m, nm) == m

DropRow(m, nm) ==
    LET p == PosOf(m.rows, nm)
    IN Frame(RemoveAt(m.rows, p), m.cols, RemoveAt(m.vals, p))

(* ------------------------------ numpy ---------------------------------- *)
\* the sum of a[1..n], NaN entries left out
RECURSIVE NanSumTo(_, _)
NanSumTo(a, n) ==
    IF n = 0 THEN 0
    ELSE NanSumTo(a, n - 1) + (IF IsNull(a[n]) THEN 0 ELSE a[n])

NanSum(a) == NanSumTo(a, Len(a))

NanCount(a) == Cardinality({k \in 1..Len(a) : ~IsNull(a[k])})

\* np.nanmean: the mean of the non-NaN entries, NaN when there is none
NanMean(a) ==
    IF NanCount(a) = 0 THEN NaN ELSE (NanSum(a) * MeanScale) \div NanCount(a)

\* mutant: the smaller of the two
Maximum_Smaller(a, b) ==
    IF IsNull(a) \/ IsNull(b) THEN NaN ELSE IF Lt(b, a) THEN b ELSE a

\* np.maximum: NaN when either argument is NaN
Maximum(a, b) ==
    IF IsNull(a) \/ IsNull(b) THEN NaN ELSE IF Gt(b, a) THEN b ELSE a

(* ------------------------ filter_collinearity -------------------------- *)
\* mutant: the shape is compared with itself
IsSquare_SameAxis(m) == Len(m.rows) = Len(m.rows)

\* the guard of line 351, negated: the frame has as many rows as columns
IsSquare(m) == Len(m.rows) = Len(m.cols)

\* mutant: also skips while two other columns remain
SkipColumn_TwoOthers(max_cor, thr, n_others) ==
    IsNull(max_cor) \/ Lt(max_cor, thr) \/ n_others <= 2

\* mutant: the boundary is exclusive, a maximum equal to the threshold is skipped
SkipColumn_Exclusive(max_cor, thr, n_others) ==
    IsNull(max_cor) \/ ~Gt(max_cor, thr) \/ n_others = 1

\* mutant: the NaN test is missing
SkipColumn_NoNullTest(max_cor, thr, n_others) ==
    Lt(max_cor, thr) \/ n_others = 1

\* mutant: a column with a single other column left may trigger a drop
SkipColumn_NoShapeTest(max_cor, thr, n_others) ==
    IsNull(max_cor) \/ Lt(max_cor, thr)

\* line 372: the scanned column triggers nothing
SkipColumn(max_cor, thr, n_others) ==
    IsNull(max_cor) \/ Lt(max_cor, thr) \/ n_others = 1

\* mutant: a tie of the two means drops the scanned column
DropChoice_TieDropsNm(mn_1, mn_2, nm, other_col_nm) ==
    IF IsNull(mn_1) THEN other_col_nm
    ELSE IF IsNull(mn_2) THEN nm
    ELSE IF ~Lt(mn_1, mn_2) THEN nm ELSE other_col_nm

\* mutant: the column with the smaller mean is dropped
DropChoice_Smaller(mn_1, mn_2, nm, other_col_nm) ==
    IF IsNull(mn_1) THEN other_col_nm
    ELSE IF IsNull(mn_2) THEN nm
    ELSE IF Lt(mn_1, mn_2) THEN nm ELSE other_col_nm

\* mutant: the means are not looked at, the partner is dropped
DropChoice_AlwaysPartner(mn_1, mn_2, nm, other_col_nm) == other_col_nm

\* lines 392-397: which column of the pair is dropped
DropChoice(mn_1, mn_2, nm, other_col_nm) ==
    IF IsNull(mn_1) THEN other_col_nm
    ELSE IF IsNull(mn_2) THEN nm
    ELSE IF Gt(mn_1, mn_2) THEN nm ELSE other_col_nm

\* mutant: the two features change places
MCFTuple_SwapsFeatures(fx, fy, ac, mac) ==
    [feature_x |-> fy, feature_y |-> fx, abs_corr |-> ac, mac |-> mac]

\* the detail record of one removal
MCFTuple(fx, fy, ac, mac) ==
    [feature_x |-> fx, feature_y |-> fy, abs_corr |-> ac, mac |-> mac]

(* --------------------- MulticollinearityFilterer ----------------------- *)
\* mutant: one column is let through
ValidateColsRaises_One(cols) == ~cols.isNone /\ Len(cols.names) < 1

\* _validate_cols raises ValueError('too few features')
ValidateColsRaises(cols) == ~cols.isNone /\ Len(cols.names) < 2

\* _cols_if_none: the frame's column names when cols is None, else cols
ColsIfNone(frame, cols) == IF cols.isNone THEN frame.cols ELSE cols.names

\* validate_is_pd(X, cols, assert_all_finite=True) raises on a non-finite frame
ValidateIsPdRaises(frame) == ~frame.finite

\* the unordered pairs of positions 1..n
Pairs(n) == {pr \in (1..n) \X (1..n) : pr[1] < pr[2]}

\* the symmetric absolute-correlation matrices over the given names with at
\* most MaxNonZero off-diagonal pairs that are not 0.0
SymFrames(names) ==
    LET n == Len(names)
        Sparse == {P \in SUBSET Pairs(n) : Cardinality(P) <= MaxNonZero}
        Val(P, f, r, k) ==
            IF r = k THEN SelfCorr
            ELSE LET pr == IF r < k THEN <<r, k>> ELSE <<k, r>>
                 IN IF pr \in P THEN f[pr] ELSE 0
    IN UNION { { Frame(names, names,
                       [r \in 1..n |-> [k \in 1..n |-> Val(P, f, r, k)]])
                 : f \in [P -> (Corrs \cup {NaN}) \ {0}] }
               : P \in Sparse }

\* frames that are not square: every entry the same value
RectFrames ==
    { Frame(Iota(t[1]), Iota(t[2]), [a \in 1..t[1] |-> [b \in 1..t[2] |-> t[3]]])
      : t \in { u \in (0..MaxCols) \X (0..MaxCols) \X Corrs : u[1] # u[2] } }

\* the frames handed to MulticollinearityFilterer.fit: k named columns,
\* all finite or not
DataFrames == { [cols |-> Iota(k), finite |-> fin] : k \in 0..MaxCols, fin \in BOOLEAN }

\* the ``cols`` parameter: None or the first j names of the frame
ColsParams(frame) == {None} \cup { Some(Iota(j)) : j \in 0..Len(frame.cols) }

(* ------------------------ SparseFeatureDropper ------------------------- *)
\* the lists of distinct names taken from the given ones, in any order
NameLists(names) ==
    UNION { {f \in [1..n -> Range(names)] : \A a, b \in 1..n : f[a] = f[b] => a = b}
            : n \in 1..Len(names) }

\* the ``cols`` parameter: None, or some columns of the frame in some order
ColsSelections(frame) == {None} \cup { Some(names) : names \in NameLists(frame.cols) }

\* the frames handed to SparseFeatureDropper: every column is given by the
\* number of its MaxRows entries that are missing
SparseFrames ==
    UNION { { [cols |-> Iota(p), nulls |-> n] : n \in [1..p -> 0..MaxRows] }
            : p \in 0..MaxLcCols }

\* the thresholds, in units of 1/MaxRows: from below 0.0 to above 1.0
SparseThresholds == -1..(MaxRows + 1)

\* lines 127-129: the threshold is not in [0, 1)
ThreshRaises(thresh) == ~(0 <= thresh /\ thresh < MaxRows)

\* line 135: the fraction of missing entries of each evaluated column, in
\* units of 1/MaxRows
Sparsity(frame, cols) ==
    [j \in 1..Len(cols) |-> frame.nulls[PosOf(frame.cols, cols[j])]]

\* line 136
SparsityMask(sparsity, thresh) == [j \in 1..Len(sparsity) |-> sparsity[j] > thresh]

\* line 137, X.columns[mask]: the labels at the positions where the mask
\* is true.  With a mask shorter than the index numpy either raises
\* IndexError or, before 1.13, warns and reads the mask as far as it goes.
IndexByMask(index, mask) ==
    LET picked == SelectSeq(index, LAMBDA nm : PosOf(index, nm) <= Len(mask)
                                              /\ mask[PosOf(index, nm)])
    IN IF Len(mask) = Len(index)
       THEN { [raises |-> FALSE, names |-> picked] }
       ELSE { [raises |-> TRUE, names |-> <<>>], [raises |-> FALSE, names |-> picked] }

(* --------------------------- FeatureDropper ---------------------------- *)
\* lines 189-190: drop_ is the cols parameter itself, None when no cols were
\* given and the list of names otherwise
DropperDrop(cols) == cols

(* -------------------------- FeatureRetainer ---------------------------- *)
\* line 264: the names handed to X.drop
RetainerFitCols(cols) == IF cols.isNone THEN <<>> ELSE cols.names

\* line 265: the names of the frame that are left when those are dropped
RetainerDrop(frame, cols) ==
    SelectSeq(frame.cols, LAMBDA nm : nm \notin Range(RetainerFitCols(cols)))

\* lines 290-292: the names of the frame transform returns
RetainerTransform(frame, cols) == IF cols.isNone THEN frame.cols ELSE cols.names

(* ----------------------- H2OFScoreKBestSelector ----------------------- *)
\* the values of the parameter k: 'all', another string, an integer, or a
\* number that is not an integer (v + 0.5)
KValues ==
    {[tag |-> "all", v |-> 0], [tag |-> "str", v |-> 0]}
    \cup {[tag |-> "int", v |-> n] : n \in -1..(MaxCols + 1)}
    \cup {[tag |-> "float", v |-> n] : n \in 0..1}

\* the parameter target_feature: None, the default, or the name of a column
NoTarget == [isNone |-> TRUE, name |-> ""]
TargetFeatures == {NoTarget, [isNone |-> FALSE, name |-> "y"]}

\* lines 301-303, _test_and_score: no target feature was given
TargetRaises(tf) == tf.isNone

\* is_integer
IsInteger(k) == k.tag = "int"

\* line 657: k is neither 'all' nor a positive integer
KRaises(k) == ~(k.tag = "all" \/ (IsInteger(k) /\ k.v > 0))

\* the F-scores of at most MaxCols features: NaN, or 0.0, 1.0, 2.0
ScoreArrays == UNION { [1..n -> {NaN, 0, 1, 2}] : n \in 0..MaxCols }

\* np.finfo(float).min, here a value below every score
FloatMin == -10000000

\* _clean_nans: a copy of the scores with NaN replaced by the lowest float
CleanNans(scores) ==
    [j \in 1..Len(scores) |-> IF IsNull(scores[j]) THEN FloatMin ELSE scores[j]]

\* np.argsort(a, kind="mergesort"): the positions of a in ascending order of
\* their values, equal values in their original order
Argsort(a) ==
    LET Place(j) ==
            1 + Cardinality({k \in 1..Len(a) :
                                a[k] < a[j] \/ (a[k] = a[j] /\ k < j)})
    IN [q \in 1..Len(a) |-> CHOOSE j \in 1..Len(a) : Place(j) = q]

\* mutant: the first k positions
LastK_FirstK(idx, k) ==
    IF k >= Len(idx) THEN idx ELSE SubSeq(idx, 1, k)

\* idx[-k:] for k > 0: the last k positions, all of them when k >= len(idx)
LastK(idx, k) ==
    IF k >= Len(idx) THEN idx ELSE SubSeq(idx, Len(idx) - k + 1, Len(idx))

\* lines 683-698: the names to drop
SelectFeatures(k, all_scores, feature_names) ==
    IF k.tag = "all" THEN <<>>
    ELSE LET scores == CleanNans(all_scores)
             kept == Range(LastK(Argsort(scores), k.v))
         IN SelectSeq(feature_names,
                      LAMBDA nm : PosOf(feature_names, nm) \notin kept)

(* --------------------- H2OFScorePercentileSelector --------------------- *)
\* the values of the parameter percentile: a string, an integer, or a number
\* that is not an integer (v + 0.5)
Percentiles == {-10, 0, 10, 25, 50, 75, 100, 110}

PercentileValues ==
    {[tag |-> "str", v |-> 0], [tag |-> "float", v |-> 10]}
    \cup {[tag |-> "int", v |-> n] : n \in Percentiles}

\* line 529: the percentile is not an integer
PercentileRaises(percentile) == ~IsInteger(percentile)

\* the F-scores of at least one feature
PercentileScoreArrays == {sc \in ScoreArrays : Len(sc) > 0}

\* np.sort(a): the values of a in ascending order
Sort(a) == [q \in 1..Len(a) |-> a[Argsort(a)[q]]]

\* stats.scoreatpercentile raises ValueError for a percentile outside [0, 100]
ScoreAtPercentileRaises(per) == ~(0 <= per /\ per <= 100)

\* stats.scoreatpercentile weighs the two values next to a fractional
\* position idx by j - idx and idx - i, all in double precision.  For the
\* percentiles of Percentiles and arrays of at most 9 scores: two equal
\* scores 0.0, 1.0 or 2.0 give that score, two different values give a value
\* strictly between them, and the lowest float weighed with itself gives
\* itself, except for these pairs of per and len(a), where the rounded
\* products add up to the float next above it.
RoundsAboveMin(per, n) ==
    <<per, n>> \in {<<90, 4>>, <<90, 5>>, <<90, 7>>, <<90, 8>>}

\* stats.scoreatpercentile(a, per), in hundredths: the value at the position
\* per / 100 * (len(a) - 1) of the sorted array when that is a whole number,
\* and otherwise the two values next to it weighted by their distances to
\* it; 100 * FloatMin + 1 stands for the float next above the lowest one
ScoreAtPercentile(a, per) ==
    LET sorted == Sort(a)
        idx == per * (Len(a) - 1)
        lo == idx \div 100
        frac == idx % 100
    IN IF frac = 0
       THEN 100 * sorted[lo + 1]
       ELSE IF /\ sorted[lo + 1] = FloatMin
               /\ sorted[lo + 2] = FloatMin
               /\ RoundsAboveMin(per, Len(a))
       THEN 100 * FloatMin + 1
       ELSE sorted[lo + 1] * (100 - frac) + sorted[lo + 2] * frac

\* seq[:stop], a negative stop counting from the end
SliceTo(seq, stop) ==
    LET n == Len(seq)
        last == IF stop < 0
                THEN (IF n + stop < 0 THEN 0 ELSE n + stop)
                ELSE (IF stop > n THEN n ELSE stop)
    IN SubSeq(seq, 1, last)

\* lines 569-572: the ties that are kept, ties[:max_feats - mask.sum()]
KeptTies(ties, max_feats, above) ==
    IF ties = <<>> THEN <<>> ELSE SliceTo(ties, max_feats - above)

\* lines 555-578: the names to drop, for an integer percentile
SelectFeaturesPercentile(percentile, all_scores, feature_names) ==
    IF percentile = 100 THEN <<>>
    ELSE IF percentile = 0 THEN feature_names
    ELSE LET scores == CleanNans(all_scores)
             n == Len(scores)
             thresh == ScoreAtPercentile(scores, 100 - percentile)
             above == {j \in 1..n : 100 * scores[j] > thresh}
             ties == SelectSeq(Iota(n), LAMBDA j : 100 * scores[j] = thresh)
             max_feats == (n * percentile) \div 100
             mask == above \cup Range(KeptTies(ties, max_feats, Cardinality(above)))
         IN SelectSeq(feature_names,
                      LAMBDA nm : PosOf(feature_names, nm) \notin mask)

(* ------------------- rank-revealing decomposition ---------------------- *)
(* A numeric matrix is the sequence of its columns, each a tuple of        *)
(* MaxRows integers; all arithmetic below is exact.                        *)

\* the sum of the numbers a[1..n]
RECURSIVE SumTo(_, _)
SumTo(a, n) == IF n = 0 THEN 0 ELSE SumTo(a, n - 1) + a[n]

Dot(u, v) == SumTo([r \in 1..Len(u) |-> u[r] * v[r]], Len(u))

Abs(z) == IF z < 0 THEN -z ELSE z

\* determinant of a square matrix given as the tuple of its rows
RECURSIVE Det(_)
Det(M) ==
    LET n == Len(M)
    IN IF n = 0 THEN 1
       ELSE IF n = 1 THEN M[1][1]
       ELSE SumTo([j \in 1..n |->
                      (IF j % 2 = 1 THEN 1 ELSE -1) * M[1][j]
                        * Det([a \in 1..(n - 1) |-> RemoveAt(M[a + 1], j)])], n)

\* the matrix of inner products of the given columns
Gram(columns) ==
    [a \in 1..Len(columns) |-> [b \in 1..Len(columns) |-> Dot(columns[a], columns[b])]]

\* the given columns are linearly independent
Independent(columns) == Det(Gram(columns)) # 0

\* the columns of mat at the positions idx, in that order
Take(mat, idx) == [j \in 1..Len(idx) |-> mat[idx[j]]]

\* the positions in S in ascending order
RECURSIVE Ascending(_)
Ascending(S) ==
    IF S = {} THEN <<>>
    ELSE LET mx == CHOOSE a \in S : \A b \in S : b <= a
         IN Append(Ascending(S \ {mx}), mx)

\* the number of linearly independent columns
RankOf(mat) ==
    LET sizes == {Cardinality(S) : S \in {T \in SUBSET (1..Len(mat)) :
                                             Independent(Take(mat, Ascending(T)))}}
    IN CHOOSE r \in sizes : \A q \in sizes : q <= r

Orderings(n) ==
    {f \in [1..n -> 1..n] : \A a, b \in 1..n : f[a] = f[b] => a = b}

\* QRDecomposition(x): the rank and a pivot, any ordering of the columns
\* whose first ``rank`` columns are independent
QRDecompositions(mat) ==
    LET r == RankOf(mat)
    IN { [rank |-> r, pivot |-> pv, n_features |-> Len(mat), x |-> mat]
         : pv \in {f \in Orderings(Len(mat)) :
                      Independent(Take(mat, SubSeq(f, 1, r)))} }

\* the tolerance of line 179 is 1 / TolInv
TolInv == 1000000

\* get_coef: the least-squares coefficients of each dependent column on the
\* independent ones, b[j][i] a fraction <<numerator, denominator>>; no result
\* when the independent set is empty
GetCoef(decomp) ==
    LET r == decomp.rank
        ind == Take(decomp.x, SubSeq(decomp.pivot, 1, r))
        G == Gram(ind)
        dG == Det(G)
        Dep(k) == decomp.x[decomp.pivot[r + k]]
        Num(j, k) ==
            Det([a \in 1..r |-> [b \in 1..r |->
                    IF b = j THEN Dot(ind[a], Dep(k)) ELSE G[a][b]]])
    IN IF r = 0 THEN [isNone |-> TRUE, b |-> <<>>]
       ELSE [isNone |-> FALSE,
             b |-> [j \in 1..r |-> [k \in 1..(decomp.n_features - r) |->
                        <<Num(j, k), dG>>]]]

(* ----------------------------- _enum_lc -------------------------------- *)
\* mutant: the test of line 169 is inverted
HasDependency_Inverted(rank, n_features) == rank = n_features

\* line 169
HasDependency(rank, n_features) == ~(rank = n_features)

\* mutant: a coefficient equal to the tolerance becomes 0 as well
Zap_Inclusive(fr) == IF Abs(fr[1]) * TolInv <= Abs(fr[2]) THEN <<0, 1>> ELSE fr

\* line 179: a coefficient below the tolerance in absolute value becomes 0
Zap(fr) == IF Abs(fr[1]) * TolInv < Abs(fr[2]) THEN <<0, 1>> ELSE fr

\* lines 185-189: the dependent column's pivot, then the pivots of the
\* independent columns whose coefficient is not zero
Nested(decomp, b, k) ==
    <<decomp.pivot[decomp.rank + k]>> \o
    Take(decomp.pivot, SelectSeq(Iota(decomp.rank), LAMBDA j : Zap(b[j][k])[1] # 0))

\* lines 177-194: given the coefficients get_coef returned, None or the
\* dependency record of every dependent column
EnumLcOf(decomp, coef) ==
    IF ~coef.isNone
    THEN [isNone |-> FALSE,
          d |-> [k \in 1..(decomp.n_features - decomp.rank) |->
                    Nested(decomp, coef.b, k)]]
    ELSE [isNone |-> TRUE, d |-> <<>>]

\* lines 164-194: None, or the dependency record of every dependent column
EnumLc(decomp) ==
    IF HasDependency(decomp.rank, decomp.n_features)
    THEN EnumLcOf(decomp, GetCoef(decomp))
    ELSE [isNone |-> TRUE, d |-> <<>>]

(* --------------------- LinearCombinationFilterer ----------------------- *)
\* mutant: every index of every record is marked
Bad_AllIndices(lc) == Ascending(UNION {Range(lc.d[k]) : k \in 1..Len(lc.d)})

\* line 130: the first index of every record, as a set laid out ascending
Bad(lc) == Ascending({lc.d[k][1] : k \in 1..Len(lc.d)})

\* mutant: nothing is taken out
Delete_Nothing(a, bad) == [j \in 1..Len(a) |-> <<j, a[j]>>]

\* np.delete(a, bad): a without the positions in bad
Delete(a, bad) == SelectSeq([j \in 1..Len(a) |-> <<j, a[j]>>],
                            LAMBDA e : e[1] \notin Range(bad))

DeleteAt(a, bad) == [j \in 1..Len(Delete(a, bad)) |-> Delete(a, bad)[j][2]]

\* X[cols]: the columns of the frame with the given names
FrameSelect(frame, names) ==
    [j \in 1..Len(names) |-> frame.data[PosOf(frame.cols, names[j])]]

\* mutant: keeps the named columns instead of removing them
FrameDropNames_Keeps(frame, names) ==
    LET keep == SelectSeq(Iota(Len(frame.cols)), LAMBDA k : frame.cols[k] \in names)
    IN [cols |-> Take(frame.cols, keep), data |-> Take(frame.data, keep)]

\* X.drop(names, axis=1)
FrameDropNames(frame, names) ==
    LET keep == SelectSeq(Iota(Len(frame.cols)), LAMBDA k : frame.cols[k] \notin names)
    IN [cols |-> Take(frame.cols, keep), data |-> Take(frame.data, keep)]

\* mutant: the drop is done in place
CallerFrameAfterDrop_Inplace(frame, names) ==
    [frame EXCEPT !.cols = FrameDropNames(frame, names).cols,
                  !.data = FrameDropNames(frame, names).data]

\* X.drop(names, axis=1) is not asked to work in place: the frame it is
\* called on is left as it is
CallerFrameAfterDrop(frame, names) == frame

\* the entries of a frame handed to LinearCombinationFilterer
Entries == {0, 1}

\* the frames handed to LinearCombinationFilterer: finite ones, and for
\* every width one with a non-finite entry (its entries are not read)
LcFrames ==
    UNION { { [cols |-> Iota(p), data |-> d, finite |-> TRUE]
              : d \in [1..p -> [1..MaxRows -> Entries]] }
            : p \in 0..MaxLcCols }
    \cup { [cols |-> Iota(p), data |-> [j \in 1..p |-> [r \in 1..MaxRows |-> 0]],
            finite |-> FALSE] : p \in 0..MaxLcCols }

NoList == [isNone |-> TRUE, d |-> <<>>]
NoOutput == [cols |-> <<>>, data |-> <<>>]

(* ---------------------- NearZeroVarianceFilterer ----------------------- *)
\* the strategy parameter: the two valid ones and one that is not
Strategies == {"variance", "ratio", "range"}

\* lines 677-680
StrategyRaises(s) == s \notin {"variance", "ratio"}

\* the threshold parameter: 0.0, 1.0, 2.0
NzvThresholds == {0, 1, 2}

\* lines 690-692: with the ratio strategy the threshold must be above 1.0
RatioRaises(ratio) == ~(ratio > 1)

\* a number as a fraction; not-a-number is 0/0
Frac(num, den) == [num |-> num, den |-> den]

\* line 684, X[cols].var(): the sample variance (one degree of freedom
\* less) of a column of n entries, (n * sum(x^2) - sum(x)^2) / (n * (n - 1))
Var(col) ==
    LET n == Len(col)
    IN IF n < 2 THEN Frac(0, 0)
       ELSE Frac(n * Dot(col, col) - SumTo(col, n) * SumTo(col, n), n * (n - 1))

\* line 685: variances < threshold, false for not-a-number
VarBelow(v, thr) == v.den # 0 /\ v.num < thr * v.den

\* line 549: how often each value of the series occurs, most frequent first
ValueCounts(series) ==
    LET vals == Range(series)
        cnt(v) == Cardinality({r \in 1..Len(series) : series[r] = v})
        before(v, w) == cnt(v) > cnt(w) \/ (cnt(v) = cnt(w) /\ v < w)
        byrank == [k \in 1..Cardinality(vals) |->
                     CHOOSE v \in vals :
                        Cardinality({w \in vals : before(w, v)}) = k - 1]
    IN [k \in 1..Cardinality(vals) |-> cnt(byrank[k])]

\* lines 549-558, _near_zero_variance_ratio
NearZeroVarianceRatio(series, ratio) ==
    LET counts == ValueCounts(series)
    IN IF Len(counts) < 2
       THEN [ratio_ |-> Frac(0, 0), drop_ |-> 1]
       ELSE [ratio_ |-> Frac(counts[1], counts[2]),
             drop_ |-> IF counts[1] >= ratio * counts[2] THEN 1 ELSE 0]

\* the positions of a sequence where the mask holds
Masked(seq, mask) ==
    LET idx == SelectSeq(Iota(Len(seq)), LAMBDA j : mask[j])
    IN [k \in 1..Len(idx) |-> seq[idx[k]]]

\* lines 684-687: the variances below the threshold, and their columns
NzvVariance(frame, cols, thr) ==
    LET variances == [j \in 1..Len(cols) |-> Var(frame.data[PosOf(frame.cols, cols[j])])]
        mask == [j \in 1..Len(cols) |-> VarBelow(variances[j], thr)]
    IN [var_ |-> Masked(variances, mask), drop_ |-> Masked(cols, mask)]

\* lines 695-698: the columns the ratio test drops, mapped to their ratios
NzvRatio(frame, cols, ratio) ==
    LET matrix == [j \in 1..Len(cols) |->
                     NearZeroVarianceRatio(frame.data[PosOf(frame.cols, cols[j])], ratio)]
        drop_mask == [j \in 1..Len(cols) |-> matrix[j].drop_ = 1]
        kept == Masked(cols, drop_mask)
        ratios == Masked([j \in 1..Len(cols) |-> matrix[j].ratio_], drop_mask)
    IN [var_ |-> [k \in 1..Len(kept) |-> [k |-> kept[k], v |-> ratios[k]]],
        drop_ |-> kept]

\* the fitted attributes of an estimator that was never fitted
Unfitted == [fitted |-> FALSE, drop_ |-> <<>>, mean_abs_correlations_ |-> <<>>,
             correlations_ |-> <<>>, sparsity_ |-> <<>>, var_ |-> <<>>]

\* the fitted attributes when fit raises at one of its checks: the checks
\* come before the first assignment to an attribute, so they are as they were
FailedFit_ClearsLists(a) ==
    [a EXCEPT !.correlations_ = <<>>, !.sparsity_ = <<>>, !.var_ = <<>>]

FailedFit(a) == a

VARIABLES
    pc,         \* where control is
    caller,     \* "none", "direct" (filter_collinearity called) or "fit"
    c,          \* the correlation matrix filter_collinearity works on
    c0,         \* the matrix as it was passed
    threshold,
    drops, macor, corrz,
    finished,
    i,          \* the for loop's position (0-based)
    nscans,     \* how many times the for loop was started
    lastdrop,   \* the decision of the latest drop
    err,        \* the exception raised, "" when none
    X,          \* the frame passed to fit
    self_cols,  \* the estimator's cols parameter
    attrs,      \* the estimator's fitted attributes
    lc_x,       \* LinearCombinationFilterer: the working matrix x
    lc_cols,    \* the working array of names
    lc_drops,   \* the running drop list
    lc_list,    \* the latest result of _enum_lc
    lc_iters,   \* how many passes of the elimination loop ran
    lc_out,     \* the frame fit_transform returns
    qr,         \* the decomposition handed to _enum_lc on its own
    strategy,   \* NearZeroVarianceFilterer's strategy parameter
    tr_out,     \* the column names of the frame transform returns
    kb,         \* H2OFScoreKBestSelector: k, the scores, the names, the drops
    pct,        \* H2OFScorePercentileSelector: percentile, scores, names, drops
    prior       \* the outcome of an earlier call of filter_collinearity

vars == <<pc, caller, c, c0, threshold, drops, macor, corrz, finished, i,
          nscans, lastdrop, err, X, self_cols, attrs,
          lc_x, lc_cols, lc_drops, lc_list, lc_iters, lc_out,
          qr, strategy, tr_out, kb, pct, prior>>

selvars == <<qr, strategy, tr_out, kb, pct, prior>>

lcvars == <<lc_x, lc_cols, lc_drops, lc_list, lc_iters, lc_out>>

fcvars == <<c, drops, macor, corrz, finished, i, nscans, lastdrop>>
fitvars == <<X, self_cols, attrs>>

\* no decomposition, and no selection of features, yet
NoDecomp == [rank |-> 0, pivot |-> <<>>, n_features |-> 0, coef |-> <<>>]
NoPercentileSelection ==
    [percentile |-> [tag |-> "int", v |-> 10], target_feature |-> NoTarget,
     scores |-> <<>>, feature_names |-> <<>>, drop |-> <<>>]

NoSelection == [k |-> [tag |-> "all", v |-> 0], target_feature |-> NoTarget,
                scores |-> <<>>, feature_names |-> <<>>, drop |-> <<>>]

\* no earlier call to compare with
NoPrior == [run |-> FALSE, order |-> <<>>, drops |-> <<>>, macor |-> <<>>,
            corrz |-> <<>>, cols |-> <<>>]

NoDrop == [nm |-> 0, other |-> 0, max_cor |-> NaN, mn_1 |-> NaN, mn_2 |-> NaN,
           drop_nm |-> 0, ncols |-> 0]

Init ==
    /\ pc = "idle"
    /\ caller = "none"
    /\ c = NoFrame
    /\ c0 = NoFrame
    /\ threshold = 0
    /\ drops = <<>>
    /\ macor = <<>>
    /\ corrz = <<>>
    /\ finished = FALSE
    /\ i = 0
    /\ nscans = 0
    /\ lastdrop = NoDrop
    /\ err = ""
    /\ X = [cols |-> <<>>, finite |-> TRUE]
    /\ self_cols = None
    /\ attrs = Unfitted
    /\ lc_x = <<>>
    /\ lc_cols = <<>>
    /\ lc_drops = <<>>
    /\ lc_list = NoList
    /\ lc_iters = 0
    /\ lc_out = NoOutput
    /\ qr = NoDecomp
    /\ strategy = "variance"
    /\ tr_out = <<>>
    /\ kb = NoSelection
    /\ pct = NoPercentileSelection
    /\ prior = NoPrior

\* a caller passes a correlation matrix to filter_collinearity
Call ==
    /\ pc = "idle"
    /\ \E n \in 0..MaxCols :
         \E m \in SymFrames(Iota(n)) \cup RectFrames :
           /\ c' = m
           /\ c0' = m
    /\ \E thr \in Thresholds : threshold' = thr
    /\ caller' = "direct"
    /\ pc' = "check"
    /\ UNCHANGED <<drops, macor, corrz, finished, i, nscans, lastdrop, err, fitvars, lcvars,
                   selvars>>

\* lines 351-360
CheckSquare ==
    /\ pc = "check"
    /\ IF ~IsSquare(c)
       THEN /\ pc' = "raised"
            /\ err' = "ValueError: input dataframe should be symmetrical in dimensions"
            /\ UNCHANGED <<drops, macor, corrz, finished>>
       ELSE /\ pc' = "while"
            /\ drops' = <<>>
            /\ macor' = <<>>
            /\ corrz' = <<>>
            /\ finished' = FALSE
            /\ err' = err
    /\ UNCHANGED <<caller, c, c0, threshold, i, nscans, lastdrop, fitvars, lcvars,
                   selvars>>

\* line 361, finished: lines 420-421
WhileExit ==
    /\ pc = "while"
    /\ finished
    /\ pc' = "done"
    /\ UNCHANGED <<caller, c0, threshold, err, fcvars, fitvars, lcvars,
                   selvars>>

\* mutant: the scan resumes where the last one broke off
ScanStart_Resumes(prev) == prev

\* line 364: enumerate(c.columns) counts from 0, wherever the last scan ended
ScanStart(prev) == 0

\* line 361, not finished: line 364 starts the scan over
WhileEnter ==
    /\ pc = "while"
    /\ ~finished
    /\ pc' = "for"
    /\ i' = ScanStart(i)
    /\ nscans' = IF nscans < MaxScans THEN nscans + 1 ELSE nscans
    /\ UNCHANGED <<caller, c, c0, threshold, drops, macor, corrz, finished,
                   lastdrop, err, fitvars, lcvars,
                   selvars>>

\* line 364: no column is left to scan
ForExhausted ==
    /\ pc = "for"
    /\ i >= Len(c.cols)
    /\ pc' = "while"
    /\ UNCHANGED <<caller, c0, threshold, err, fcvars, fitvars, lcvars,
                   selvars>>

\* the column the for loop is at
ScanNm == c.cols[i + 1]
\* line 365 raises KeyError: the name is no row label
ScanKeyError == PosOf(c.rows, ScanNm) = 0
\* lines 365-368
ThisCol == SortValues(SeriesDrop(Column(c, ScanNm), ScanNm))
\* line 371 raises IndexError: the column has no other entry
ScanIndexError == ThisCol = <<>>

\* lines 365, 371: an exception leaves the function
ForRaise ==
    /\ pc = "for"
    /\ i < Len(c.cols)
    /\ ScanKeyError \/ ScanIndexError
    /\ pc' = "raised"
    /\ err' = IF ScanKeyError THEN "KeyError" ELSE "IndexError"
    /\ UNCHANGED <<caller, c0, threshold, fcvars, fitvars, lcvars,
                   selvars>>

\* lines 372-377: the column triggers nothing
ForSkip ==
    /\ pc = "for"
    /\ i < Len(c.cols)
    /\ ~ScanKeyError
    /\ ~ScanIndexError
    /\ LET this_col == SeriesValues(ThisCol)
           max_cor == Last(this_col)
       IN /\ SkipColumn(max_cor, threshold, Len(this_col))
          /\ finished' = IF i = Len(c.cols) - 1 THEN TRUE ELSE finished
    /\ i' = i + 1
    /\ UNCHANGED <<pc, caller, c, c0, threshold, drops, macor, corrz, nscans,
                   lastdrop, err, fitvars, lcvars,
                   selvars>>

\* lines 379-415: one column of the pair is dropped and the scan breaks
ForDrop ==
    /\ pc = "for"
    /\ i < Len(c.cols)
    /\ ~ScanKeyError
    /\ ~ScanIndexError
    /\ LET nm == ScanNm
           this_col == SeriesValues(ThisCol)
           this_col_nms == SeriesIndex(ThisCol)
           max_cor == Last(this_col)
           other_col_nm == Last(this_col_nms)
           that_col == SeriesValues(SeriesDrop(Column(c, other_col_nm), other_col_nm))
           mn_1 == NanMean(this_col)
           mn_2 == NanMean(that_col)
           drop_nm == DropChoice(mn_1, mn_2, nm, other_col_nm)
           mac == Maximum(mn_1, mn_2)
       IN /\ ~SkipColumn(max_cor, threshold, Len(this_col))
          /\ c' = DropRow(DropColumn(c, drop_nm), drop_nm)
          /\ drops' = Append(drops, drop_nm)
          /\ macor' = Append(macor, mac)
          /\ corrz' = Append(corrz,
                 MCFTuple(drop_nm, IF nm # drop_nm THEN nm ELSE other_col_nm,
                          max_cor, mac))
          /\ lastdrop' = [nm |-> nm, other |-> other_col_nm, max_cor |-> max_cor,
                          mn_1 |-> mn_1, mn_2 |-> mn_2, drop_nm |-> drop_nm,
                          ncols |-> Len(c.cols)]
    /\ pc' = "while"
    /\ UNCHANGED <<caller, c0, threshold, finished, i, nscans, err, fitvars, lcvars,
                   selvars>>

\* MulticollinearityFilterer.fit is called on a frame
FitCall ==
    /\ pc = "idle"
    /\ \E frame \in DataFrames :
         /\ X' = frame
         /\ \E cp \in ColsParams(frame) : self_cols' = cp
    /\ \E thr \in Thresholds : threshold' = thr
    /\ caller' = "fit"
    /\ pc' = "fit"
    /\ UNCHANGED <<c, c0, drops, macor, corrz, finished, i, nscans, lastdrop, err,
                   attrs, lcvars,
                   selvars>>

\* lines 515-523, up to the call of filter_collinearity
FitValidate ==
    /\ pc = "fit"
    /\ IF ValidateIsPdRaises(X)
       THEN /\ pc' = "raised"
            /\ err' = "ValueError: Expected all entries to be finite"
            /\ attrs' = FailedFit(attrs)
            /\ UNCHANGED <<c, c0>>
       ELSE IF ValidateColsRaises(Some(ColsIfNone(X, self_cols)))
       THEN /\ pc' = "raised"
            /\ err' = "ValueError: too few features"
            /\ attrs' = FailedFit(attrs)
            /\ UNCHANGED <<c, c0>>
       ELSE /\ \E m \in SymFrames(ColsIfNone(X, self_cols)) :
                 /\ c' = m
                 /\ c0' = m
            /\ pc' = "check"
            /\ err' = err
            /\ attrs' = attrs
    /\ UNCHANGED <<caller, threshold, drops, macor, corrz, finished, i, nscans,
                   lastdrop, X, self_cols, lcvars,
                   selvars>>

\* line 523: the three results become the estimator's attributes
FitAssign ==
    /\ pc = "done"
    /\ caller = "fit"
    /\ attrs' = [attrs EXCEPT !.fitted = TRUE, !.drop_ = drops,
                                !.mean_abs_correlations_ = macor,
                                !.correlations_ = corrz]
    /\ pc' = "fitted"
    /\ UNCHANGED <<caller, c0, threshold, err, fcvars, X, self_cols, lcvars,
                   selvars>>

(* filter_collinearity called on a correlation matrix *)
Next ==
    \/ Call
    \/ CheckSquare
    \/ WhileExit
    \/ WhileEnter
    \/ ForExhausted
    \/ ForRaise
    \/ ForSkip
    \/ ForDrop

Spec == Init /\ [][Next]_vars

(* MulticollinearityFilterer.fit, which calls filter_collinearity *)
NextFit ==
    \/ FitCall
    \/ FitValidate
    \/ CheckSquare
    \/ WhileExit
    \/ WhileEnter
    \/ ForExhausted
    \/ ForSkip
    \/ ForDrop
    \/ FitAssign

SpecFit == Init /\ [][NextFit]_vars

(* LinearCombinationFilterer.fit_transform *)
\* fit_transform is called on a frame
LcCall ==
    /\ pc = "idle"
    /\ \E frame \in LcFrames :
         /\ X' = frame
         /\ \E cp \in ColsParams(frame) : self_cols' = cp
    /\ caller' = "lc"
    /\ pc' = "lc_fit"
    /\ UNCHANGED <<c, c0, threshold, err, fcvars, attrs, lcvars,
                   selvars>>

\* lines 113-125: the checks, and the first decomposition
LcBegin ==
    /\ pc = "lc_fit"
    /\ IF ValidateIsPdRaises(X)
       THEN /\ pc' = "raised"
            /\ err' = "ValueError: Expected all entries to be finite"
            /\ attrs' = FailedFit(attrs)
            /\ UNCHANGED <<lc_x, lc_cols, lc_drops, lc_list>>
       ELSE IF ValidateColsRaises(self_cols)
       THEN /\ pc' = "raised"
            /\ err' = "ValueError: too few features"
            /\ attrs' = FailedFit(attrs)
            /\ UNCHANGED <<lc_x, lc_cols, lc_drops, lc_list>>
       ELSE /\ lc_drops' = <<>>
            /\ lc_cols' = ColsIfNone(X, self_cols)
            /\ lc_x' = FrameSelect(X, ColsIfNone(X, self_cols))
            /\ \E decomp \in QRDecompositions(FrameSelect(X, ColsIfNone(X, self_cols))) :
                 lc_list' = EnumLc(decomp)
            /\ pc' = "lc_loop"
            /\ err' = err
            /\ attrs' = attrs
    /\ UNCHANGED <<caller, c, c0, threshold, fcvars, X, self_cols, lc_iters, lc_out,
                   selvars>>

\* lines 128-141: one pass of the elimination loop
LcLoop ==
    /\ pc = "lc_loop"
    /\ ~lc_list.isNone
    /\ LET bad == Bad(lc_list)
           bad_nms == Take(lc_cols, bad)
       IN /\ lc_drops' = lc_drops \o bad_nms
          /\ lc_x' = DeleteAt(lc_x, bad)
          /\ lc_cols' = DeleteAt(lc_cols, bad)
          /\ \E decomp \in QRDecompositions(DeleteAt(lc_x, bad)) :
               lc_list' = EnumLc(decomp)
    /\ lc_iters' = IF lc_iters < MaxIters THEN lc_iters + 1 ELSE lc_iters
    /\ UNCHANGED <<pc, caller, c, c0, threshold, err, fcvars, fitvars, lc_out,
                   selvars>>

\* lines 146-149: drop_ is the set of the drops, the frame loses them
LcFinish ==
    /\ pc = "lc_loop"
    /\ lc_list.isNone
    /\ attrs' = [attrs EXCEPT !.fitted = TRUE, !.drop_ = Range(lc_drops)]
    /\ lc_out' = FrameDropNames(X, Range(lc_drops))
    /\ X' = CallerFrameAfterDrop(X, Range(lc_drops))
    /\ pc' = "lc_done"
    /\ UNCHANGED <<caller, c, c0, threshold, err, fcvars, self_cols,
                   lc_x, lc_cols, lc_drops, lc_list, lc_iters,
                   selvars>>

NextLC ==
    \/ LcCall
    \/ LcBegin
    \/ LcLoop
    \/ LcFinish

SpecLC == Init /\ [][NextLC]_vars

(* SparseFeatureDropper.fit *)
\* fit is called on a frame
SparseCall ==
    /\ pc = "idle"
    /\ \E frame \in SparseFrames :
         /\ X' = frame
         /\ \E cp \in ColsSelections(frame) : self_cols' = cp
    /\ \E thr \in SparseThresholds : threshold' = thr
    /\ caller' = "sparse"
    /\ pc' = "sparse_fit"
    /\ UNCHANGED <<c, c0, err, fcvars, attrs, lcvars, selvars>>

\* lines 123-138
SparseFit ==
    /\ pc = "sparse_fit"
    /\ IF ThreshRaises(threshold)
       THEN /\ pc' = "raised"
            /\ err' = "ValueError: thresh must be a float between 0 (inclusive) and 1"
            /\ attrs' = FailedFit(attrs)
       ELSE LET cols == ColsIfNone(X, self_cols)
                sparsity == Sparsity(X, cols)
            IN \E res \in IndexByMask(X.cols, SparsityMask(sparsity, threshold)) :
                 IF res.raises
                 THEN /\ pc' = "raised"
                      /\ err' = "IndexError"
                      /\ attrs' = [attrs EXCEPT !.sparsity_ = sparsity]
                 ELSE /\ pc' = "sparse_done"
                      /\ err' = err
                      /\ attrs' = [attrs EXCEPT !.fitted = TRUE,
                                                !.sparsity_ = sparsity,
                                                !.drop_ = res.names]
    /\ UNCHANGED <<caller, c, c0, threshold, fcvars, X, self_cols, lcvars, selvars>>

NextSparse ==
    \/ SparseCall
    \/ SparseFit

SpecSparse == Init /\ [][NextSparse]_vars

(* fit called again on an instance, after a fit that returned or raised *)
\* the least number of columns _validate_cols accepts (select.py, line 36)
MinFeatures == 2

\* the frames of the given family that are no wider than w columns
Narrow(frames, w) == {f \in frames : Len(f.cols) <= w}

\* the locals of the call that ended are gone
FreshCall ==
    /\ c' = NoFrame
    /\ c0' = NoFrame
    /\ drops' = <<>>
    /\ macor' = <<>>
    /\ corrz' = <<>>
    /\ finished' = FALSE
    /\ i' = 0
    /\ nscans' = 0
    /\ lastdrop' = NoDrop
    /\ err' = ""
    /\ lc_x' = <<>>
    /\ lc_cols' = <<>>
    /\ lc_drops' = <<>>
    /\ lc_list' = NoList
    /\ lc_iters' = 0
    /\ lc_out' = NoOutput

\* fit has returned self, or raised: the caller has the instance again
Return ==
    /\ caller \in {"fit", "lc", "sparse", "nzv"}
    /\ pc \in {"fitted", "lc_done", "sparse_done", "nzv_done", "raised"}
    /\ pc' = "idle"
    /\ FreshCall
    /\ X' = [cols |-> <<>>, finite |-> TRUE]
    /\ self_cols' = None
    /\ threshold' = 0
    /\ strategy' = "variance"
    /\ UNCHANGED <<caller, attrs, qr, tr_out, kb, pct, prior>>

\* the instance is new, or it is an instance of this estimator
Callable(me) == pc = "idle" /\ caller \in {"none", me}

\* MulticollinearityFilterer.fit is called, the parameters set as the caller likes
McfRefit ==
    /\ Callable("fit")
    /\ \E frame \in Narrow(DataFrames, MinFeatures + 1) :
         /\ X' = frame
         /\ \E cp \in ColsParams(frame) : self_cols' = cp
    /\ \E thr \in Thresholds : threshold' = thr
    /\ caller' = "fit"
    /\ pc' = "fit"
    /\ FreshCall
    /\ UNCHANGED <<attrs, selvars>>

\* LinearCombinationFilterer.fit_transform is called
LcRefit ==
    /\ Callable("lc")
    /\ \E frame \in Narrow(LcFrames, MinFeatures + 1) :
         /\ X' = frame
         /\ \E cp \in ColsParams(frame) : self_cols' = cp
    /\ caller' = "lc"
    /\ pc' = "lc_fit"
    /\ FreshCall
    /\ UNCHANGED <<threshold, attrs, selvars>>

\* SparseFeatureDropper.fit is called
SparseRefit ==
    /\ Callable("sparse")
    /\ \E frame \in Narrow(SparseFrames, MinFeatures) :
         /\ X' = frame
         /\ \E cp \in ColsSelections(frame) : self_cols' = cp
    /\ \E thr \in SparseThresholds : threshold' = thr
    /\ caller' = "sparse"
    /\ pc' = "sparse_fit"
    /\ FreshCall
    /\ UNCHANGED <<attrs, selvars>>

\* NearZeroVarianceFilterer.fit is called
NzvRefit ==
    /\ Callable("nzv")
    /\ \E frame \in Narrow(LcFrames, MinFeatures) :
         /\ X' = frame
         /\ \E cp \in ColsParams(frame) : self_cols' = cp
    /\ \E thr \in NzvThresholds : threshold' = thr
    /\ \E st \in Strategies : strategy' = st
    /\ caller' = "nzv"
    /\ pc' = "nzv_fit"
    /\ FreshCall
    /\ UNCHANGED <<attrs, qr, tr_out, kb, pct, prior>>

\* lines 673-700
NzvFit ==
    /\ pc = "nzv_fit"
    /\ LET cols == ColsIfNone(X, self_cols)
       IN IF ValidateIsPdRaises(X)
          THEN /\ pc' = "raised"
               /\ err' = "ValueError: Expected all entries to be finite"
               /\ attrs' = FailedFit(attrs)
          ELSE IF StrategyRaises(strategy)
          THEN /\ pc' = "raised"
               /\ err' = "ValueError: strategy must be one of ('variance', 'ratio')"
               /\ attrs' = FailedFit(attrs)
          ELSE IF strategy = "variance"
          THEN /\ pc' = "nzv_done"
               /\ err' = err
               /\ attrs' = [attrs EXCEPT !.fitted = TRUE,
                                         !.var_ = NzvVariance(X, cols, threshold).var_,
                                         !.drop_ = NzvVariance(X, cols, threshold).drop_]
          ELSE IF RatioRaises(threshold)
          THEN /\ pc' = "raised"
               /\ err' = "ValueError: when strategy==\"ratio\", threshold must be greater than 1.0"
               /\ attrs' = FailedFit(attrs)
          ELSE IF cols = <<>>
          THEN \* line 696: a second axis is asked of an array that has one
               /\ pc' = "raised"
               /\ err' = "IndexError"
               /\ attrs' = attrs
          ELSE /\ pc' = "nzv_done"
               /\ err' = err
               /\ attrs' = [attrs EXCEPT !.fitted = TRUE,
                                         !.drop_ = NzvRatio(X, cols, threshold).drop_,
                                         !.var_ = NzvRatio(X, cols, threshold).var_]
    /\ UNCHANGED <<caller, c, c0, threshold, fcvars, X, self_cols, lcvars, selvars>>

NextRefit ==
    \/ McfRefit
    \/ FitValidate
    \/ CheckSquare
    \/ WhileExit
    \/ WhileEnter
    \/ ForExhausted
    \/ ForSkip
    \/ ForDrop
    \/ FitAssign
    \/ LcRefit
    \/ LcBegin
    \/ LcLoop
    \/ LcFinish
    \/ SparseRefit
    \/ SparseFit
    \/ NzvRefit
    \/ NzvFit
    \/ Return

SpecRefit == Init /\ [][NextRefit]_vars

(* filter_collinearity called a second time, the columns in another order *)
\* the correlation matrix of the same columns presented in the given order:
\* position k holds what position order[k] held, in rows and in columns
Permute(m, order) ==
    LET n == Len(m.cols)
    IN Frame([r \in 1..n |-> m.rows[order[r]]],
             [k \in 1..n |-> m.cols[order[k]]],
             [r \in 1..n |-> [k \in 1..n |-> m.vals[order[r]][order[k]]]])

\* the call has returned; the same correlations are passed once more, with
\* the same threshold and the columns in some order
Rerun ==
    /\ pc = "done"
    /\ caller = "direct"
    /\ ~prior.run
    /\ Len(c0.cols) <= MinFeatures + 2
    /\ \E order \in Orderings(Len(c0.cols)) :
         /\ prior' = [run |-> TRUE, order |-> order, drops |-> drops, macor |-> macor,
                      corrz |-> corrz, cols |-> c.cols]
         /\ c' = Permute(c0, order)
         /\ c0' = Permute(c0, order)
    /\ pc' = "check"
    /\ drops' = <<>>
    /\ macor' = <<>>
    /\ corrz' = <<>>
    /\ finished' = FALSE
    /\ i' = 0
    /\ nscans' = 0
    /\ lastdrop' = NoDrop
    /\ UNCHANGED <<caller, threshold, err, fitvars, lcvars, qr, strategy, tr_out, kb, pct>>

NextOrder ==
    \/ Call
    \/ CheckSquare
    \/ WhileExit
    \/ WhileEnter
    \/ ForExhausted
    \/ ForRaise
    \/ ForSkip
    \/ ForDrop
    \/ Rerun

SpecOrder == Init /\ [][NextOrder]_vars

(* FeatureDropper.fit *)
\* fit is called on an estimator built with some cols, None or names of the
\* frame; the frame is not tested for missing values
DropperCall ==
    /\ pc = "idle"
    /\ \E frame \in DataFrames :
         /\ X' = frame
         /\ \E cp \in ColsSelections(frame) : self_cols' = cp
    /\ caller' = "dropper"
    /\ pc' = "dropper_fit"
    /\ UNCHANGED <<c, c0, threshold, err, fcvars, attrs, lcvars, selvars>>

\* lines 187-191
DropperFit ==
    /\ pc = "dropper_fit"
    /\ attrs' = [attrs EXCEPT !.fitted = TRUE, !.drop_ = DropperDrop(self_cols)]
    /\ pc' = "dropper_fitted"
    /\ UNCHANGED <<caller, c, c0, threshold, err, fcvars, X, self_cols, lcvars, selvars>>

NextDropper ==
    \/ DropperCall
    \/ DropperFit

SpecDropper == Init /\ [][NextDropper]_vars

(* FeatureRetainer.fit, then transform of the same frame *)
RetainerCall ==
    /\ pc = "idle"
    /\ \E frame \in DataFrames :
         /\ X' = frame
         /\ \E cp \in ColsSelections(frame) : self_cols' = cp
    /\ caller' = "retainer"
    /\ pc' = "retainer_fit"
    /\ UNCHANGED <<c, c0, threshold, err, fcvars, attrs, lcvars, selvars>>

\* lines 261-267
RetainerFit ==
    /\ pc = "retainer_fit"
    /\ attrs' = [attrs EXCEPT !.fitted = TRUE, !.drop_ = RetainerDrop(X, self_cols)]
    /\ pc' = "retainer_fitted"
    /\ UNCHANGED <<caller, c, c0, threshold, err, fcvars, X, self_cols, lcvars, selvars>>

\* lines 287-293
RetainerTransformCall ==
    /\ pc = "retainer_fitted"
    /\ tr_out' = RetainerTransform(X, self_cols)
    /\ pc' = "retainer_transformed"
    /\ UNCHANGED <<caller, c, c0, threshold, err, fcvars, fitvars, lcvars,
                   qr, strategy, kb, pct, prior>>

NextRetainer ==
    \/ RetainerCall
    \/ RetainerFit
    \/ RetainerTransformCall

SpecRetainer == Init /\ [][NextRetainer]_vars

(* H2OFScoreKBestSelector.fit *)
\* fit is called on an estimator built with some k; the F-scores are what
\* the tests on the frame will give
KBestCall ==
    /\ pc = "idle"
    /\ \E k \in KValues, tf \in TargetFeatures, sc \in ScoreArrays :
         kb' = [k |-> k, target_feature |-> tf, scores |-> sc,
                feature_names |-> Iota(Len(sc)), drop |-> <<>>]
    /\ caller' = "kbest"
    /\ pc' = "kbest_fit"
    /\ UNCHANGED <<c, c0, threshold, err, fcvars, fitvars, lcvars, qr, strategy, tr_out,
                   pct, prior>>

\* lines 657-659, then _fit (lines 438-451) and _test_and_score (lines
\* 301-334), which calls _select_features on the scores
KBestFit ==
    /\ pc = "kbest_fit"
    /\ IF KRaises(kb.k)
       THEN /\ pc' = "raised"
            /\ err' = "ValueError: k must be a non-negative integer or \"all\""
            /\ kb' = kb
       ELSE IF TargetRaises(kb.target_feature)
       THEN /\ pc' = "raised"
            /\ err' = "ValueError: target_feature must be a string"
            /\ kb' = kb
       ELSE /\ pc' = "kbest_done"
            /\ err' = err
            /\ kb' = [kb EXCEPT !.drop = SelectFeatures(kb.k, kb.scores, kb.feature_names)]
    /\ UNCHANGED <<caller, c, c0, threshold, fcvars, fitvars, lcvars, qr, strategy, tr_out,
                   pct, prior>>

NextKBest ==
    \/ KBestCall
    \/ KBestFit

SpecKBest == Init /\ [][NextKBest]_vars

(* H2OFScorePercentileSelector.fit *)
\* fit is called on an estimator built with some percentile; the F-scores
\* are what the tests on the frame will give
PercentileCall ==
    /\ pc = "idle"
    /\ \E p \in PercentileValues, tf \in TargetFeatures, sc \in PercentileScoreArrays :
         pct' = [percentile |-> p, target_feature |-> tf, scores |-> sc,
                 feature_names |-> Iota(Len(sc)), drop |-> <<>>]
    /\ caller' = "percentile"
    /\ pc' = "percentile_fit"
    /\ UNCHANGED <<c, c0, threshold, err, fcvars, fitvars, lcvars, qr, strategy, tr_out,
                   kb, prior>>

\* lines 529-531, then _fit (lines 438-451) and _test_and_score (lines
\* 301-334), which calls _select_features on the scores
PercentileFit ==
    /\ pc = "percentile_fit"
    /\ IF PercentileRaises(pct.percentile)
       THEN /\ pc' = "raised"
            /\ err' = "ValueError: percentile must be an integer"
            /\ pct' = pct
       ELSE IF TargetRaises(pct.target_feature)
       THEN /\ pc' = "raised"
            /\ err' = "ValueError: target_feature must be a string"
            /\ pct' = pct
       ELSE IF /\ pct.percentile.v \notin {0, 100}
               /\ ScoreAtPercentileRaises(100 - pct.percentile.v)
       THEN /\ pc' = "raised"
            /\ err' = "ValueError: percentile must be in the range [0, 100]"
            /\ pct' = pct
       ELSE /\ pc' = "percentile_done"
            /\ err' = err
            /\ pct' = [pct EXCEPT !.drop = SelectFeaturesPercentile(
                                              pct.percentile.v, pct.scores,
                                              pct.feature_names)]
    /\ UNCHANGED <<caller, c, c0, threshold, fcvars, fitvars, lcvars, qr, strategy, tr_out,
                   kb, prior>>

NextPercentile ==
    \/ PercentileCall
    \/ PercentileFit

SpecPercentile == Init /\ [][NextPercentile]_vars

(* _enum_lc called on a decomposition whose coefficients are at the        *)
(* tolerance of line 179 or next to it                                     *)
\* the coefficients: 0, and plus or minus 1/(TolInv - 1), 1/TolInv and
\* 1/(TolInv + 1), each a fraction <<numerator, denominator>>
Coefficients == {-1, 0, 1} \X {TolInv - 1, TolInv, TolInv + 1}

\* decompositions of rank 1..MaxRows with at most one dependent column,
\* under any pivot, and the coefficients get_coef returns for them
Decompositions ==
    UNION { UNION { { [rank |-> r, pivot |-> pv, n_features |-> r + dep,
                       coef |-> b]
                      : pv \in Orderings(r + dep) }
                    : b \in [1..r -> [1..dep -> Coefficients]] }
            : r \in 1..MaxRows, dep \in 0..1 }

\* lines 164-194 on such a decomposition
EnumLcCall ==
    /\ pc = "idle"
    /\ \E decomp \in Decompositions :
         /\ qr' = decomp
         /\ lc_list' = IF HasDependency(decomp.rank, decomp.n_features)
                       THEN EnumLcOf(decomp, [isNone |-> FALSE, b |-> decomp.coef])
                       ELSE NoList
    /\ caller' = "enum"
    /\ pc' = "enum_done"
    /\ UNCHANGED <<c, c0, threshold, err, fcvars, fitvars,
                   lc_x, lc_cols, lc_drops, lc_iters, lc_out, strategy, tr_out, kb, pct,
                   prior>>

NextEnumLc ==
    \/ EnumLcCall

SpecEnumLc == Init /\ [][NextEnumLc]_vars

(* ======================================================================= *)
(*                               Properties                                *)
(* ======================================================================= *)
\* the positions of the entries of m that relate two distinct labels
OffDiag(m) ==
    {pr \in (1..Len(m.rows)) \X (1..Len(m.cols)) : m.rows[pr[1]] # m.cols[pr[2]]}

\* some pair of distinct columns has a non-NaN correlation above thr
PairExceeds(m, thr) ==
    \E pr \in OffDiag(m) : m.vals[pr[1]][pr[2]] # NaN /\ m.vals[pr[1]][pr[2]] > thr

\* no pair of distinct columns has a non-NaN correlation at or above thr
NoPairAtOrAbove(m, thr) ==
    \A pr \in OffDiag(m) : m.vals[pr[1]][pr[2]] = NaN \/ m.vals[pr[1]][pr[2]] < thr

\* the largest non-NaN entry of column nm outside its own row, NaN if none
MaxOffDiagOf(m, nm) ==
    LET k == CHOOSE k \in 1..Len(m.cols) : m.cols[k] = nm
        S == {m.vals[r][k] : r \in {q \in 1..Len(m.rows) : m.rows[q] # nm}} \ {NaN}
    IN IF S = {} THEN NaN ELSE CHOOSE v \in S : \A w \in S : w <= v

(* C1, as stated: when filter_collinearity returns on a symmetric matrix   *)
(* with at least 2 columns, no two distinct surviving columns have a       *)
(* non-NaN correlation that exceeds the threshold.                         *)
C1_NoSurvivingPairExceeds ==
    (pc = "done" /\ Len(c0.cols) >= 2) => ~PairExceeds(c, threshold)

(* C1, amended: the same whenever three or more columns survive; a column  *)
(* with a single other column left is never dropped, so two survivors may  *)
(* still exceed the threshold.                                             *)
C1_NoSurvivingPairExceedsAmongThree ==
    (pc = "done" /\ Len(c0.cols) >= 2 /\ Len(c.cols) >= 3)
        => ~PairExceeds(c, threshold)

C1_Witness ==
    /\ pc = "done"
    /\ Len(c.cols) >= 3
    /\ Len(drops) >= 1
    /\ PairExceeds(c0, threshold)

(* C4: filter_collinearity on a 0x0 matrix is an immediate no-op that      *)
(* returns three empty lists: its one scan of the empty matrix is the      *)
(* last, and nothing is raised.  (No step changes a 0x0 matrix, so a call  *)
(* that starts a second scan repeats the first one for ever.)              *)
C4_ZeroColumnsReturns ==
    (caller = "direct" /\ c0 = NoFrame)
        => /\ nscans <= 1
           /\ pc # "raised"
           /\ pc = "done" => (drops = <<>> /\ macor = <<>> /\ corrz = <<>>)

\* the columns MulticollinearityFilterer.fit evaluates
Evaluated == IF self_cols.isNone THEN X.cols ELSE self_cols.names

(* C5: MulticollinearityFilterer.fit on fewer than 2 evaluated columns     *)
(* (cols given, or cols None and a narrow frame) raises, with 'too few     *)
(* features' once the frame is validated, and neither computes a           *)
(* correlation nor enters filter_collinearity.                             *)
C5_TooFewFeatures ==
    (caller = "fit" /\ Len(Evaluated) < 2 /\ pc # "fit")
        => /\ pc = "raised"
           /\ X.finite => err = "ValueError: too few features"
           /\ c = NoFrame
           /\ nscans = 0

C5_Witness ==
    /\ caller = "fit"
    /\ pc = "raised"
    /\ err = "ValueError: too few features"
    /\ self_cols.isNone
    /\ Len(X.cols) = 1

(* C6: filter_collinearity raises ValueError on a matrix whose number of   *)
(* rows differs from its number of columns, before it removes anything:    *)
(* the matrix and the three lists are as they were.                        *)
C6_NonSquareRaises ==
    (caller = "direct" /\ Len(c0.rows) # Len(c0.cols))
        => /\ pc \in {"check", "raised"}
           /\ pc = "raised" =>
                err = "ValueError: input dataframe should be symmetrical in dimensions"
           /\ c = c0
           /\ drops = <<>> /\ macor = <<>> /\ corrz = <<>>

C6_Witness ==
    /\ pc = "raised"
    /\ Len(c0.rows) # Len(c0.cols)
    /\ Len(c0.rows) > 0
    /\ Len(c0.cols) > 0

(* C8: while 3 or more columns remain, a scanned column whose largest      *)
(* non-NaN off-diagonal correlation equals the threshold triggers a drop,  *)
(* and one whose largest correlation is below the threshold, or NaN,       *)
(* triggers none.                                                          *)
C8_InclusiveBoundary ==
    [][ (pc = "for" /\ i < Len(c.cols) /\ Len(c.cols) >= 3
            /\ Len(c.rows) = Len(c.cols))
        => LET mx == MaxOffDiagOf(c, c.cols[i + 1])
           IN /\ mx = threshold =>
                    /\ Len(drops') = Len(drops) + 1
                    /\ Len(c'.cols) = Len(c.cols) - 1
              /\ (mx = NaN \/ mx < threshold) =>
                    /\ drops' = drops
                    /\ c' = c ]_vars

C8_Witness ==
    /\ pc = "while"
    /\ Len(drops) >= 1
    /\ lastdrop.max_cor = threshold
    /\ lastdrop.ncols >= 3

\* the latest drop was decided between two columns of equal, defined, MAC
LastDropTied ==
    /\ Len(drops) >= 1
    /\ lastdrop.mn_1 # NaN
    /\ lastdrop.mn_1 = lastdrop.mn_2

(* C9, as stated: when the scanned column A and its most-correlated        *)
(* partner B exceed the threshold with equal mean absolute correlation,    *)
(* the column dropped is A.                                                *)
C9_TieDropsScannedColumn ==
    (LastDropTied /\ lastdrop.max_cor > threshold)
        => Last(drops) = lastdrop.nm

(* C9, amended: in that case the column dropped is the partner B, and the  *)
(* scanned column A stays in the matrix.                                   *)
C9_TieDropsPartner ==
    (LastDropTied /\ lastdrop.max_cor >= threshold)
        => /\ Last(drops) = lastdrop.other
           /\ lastdrop.other \notin Range(c.cols)
           /\ lastdrop.nm \in Range(c.cols)

C9_Witness ==
    /\ LastDropTied
    /\ lastdrop.max_cor > threshold
    /\ pc = "while"

(* C10: when no off-diagonal entry is at or above the threshold, the three *)
(* lists stay empty and the matrix is unchanged, and the function returns  *)
(* after a single scan.                                                    *)
C10_NothingToDrop ==
    (pc # "idle" /\ NoPairAtOrAbove(c0, threshold))
        => /\ drops = <<>> /\ macor = <<>> /\ corrz = <<>>
           /\ c = c0
           /\ pc = "done" => nscans = 1

C10_Witness ==
    /\ pc = "done"
    /\ NoPairAtOrAbove(c0, threshold)
    /\ Len(c0.cols) = 4
    /\ \E pr \in OffDiag(c0) : c0.vals[pr[1]][pr[2]] = 1
    /\ \E pr \in OffDiag(c0) : c0.vals[pr[1]][pr[2]] = NaN

\* the columns of X that LinearCombinationFilterer evaluates, as a matrix
EvaluatedMatrix ==
    [j \in 1..Len(Evaluated) |->
        X.data[CHOOSE k \in 1..Len(X.cols) : X.cols[k] = Evaluated[j]]]

\* the evaluated columns whose name is not in drop_, as a matrix
RetainedMatrix ==
    LET kept == SelectSeq(Evaluated, LAMBDA nm : nm \notin attrs.drop_)
    IN [j \in 1..Len(kept) |->
           X.data[CHOOSE k \in 1..Len(X.cols) : X.cols[k] = kept[j]]]

\* linear independence, stated directly: no combination of the columns with
\* coefficients not all zero is the zero vector.  A dependency among columns
\* of 0/1 entries in at most 3 rows has coefficients that are minors of
\* order at most 3 of a 0/1 matrix, so coefficients from -2..2 are enough.
LinearlyIndependent(mat) ==
    \A w \in [1..Len(mat) -> -2..2] :
        (\E j \in 1..Len(mat) : w[j] # 0)
            => \E r \in 1..MaxRows :
                   SumTo([j \in 1..Len(mat) |-> w[j] * mat[j][r]], Len(mat)) # 0

(* C2: after fit_transform finishes, the evaluated columns that are not in *)
(* drop_ are linearly independent.                                         *)
C2_RetainedColumnsIndependent ==
    pc = "lc_done" => LinearlyIndependent(RetainedMatrix)

(* C3: the elimination loop runs at most p passes on p evaluated columns;  *)
(* every pass that follows a reported dependency removes at least one      *)
(* column from the working matrix and its names; and as soon as the rank   *)
(* equals the number of remaining columns _enum_lc reports nothing and the *)
(* loop is left.                                                           *)
C3_LoopTerminates ==
    [][ /\ lc_iters' <= Len(Evaluated')
        /\ (pc = "lc_loop" /\ ~lc_list.isNone)
              => /\ Len(lc_cols') < Len(lc_cols)
                 /\ Len(lc_x') < Len(lc_x)
        /\ (pc' = "lc_loop" /\ RankOf(lc_x') = Len(lc_x'))
              => lc_list'.isNone
        /\ (pc = "lc_loop" /\ lc_list.isNone) => pc' = "lc_done" ]_vars

C3_Witness ==
    /\ pc = "lc_done"
    /\ lc_iters = 1
    /\ Len(lc_drops) = 2
    /\ Len(lc_cols) = 1

(* C7: on a matrix that already has full column rank, fit_transform yields *)
(* an empty drop_ and returns the frame with every column, in the same     *)
(* order and with the same values.                                         *)
C7_FullRankUnchanged ==
    (pc = "lc_done" /\ LinearlyIndependent(EvaluatedMatrix))
        => /\ attrs.drop_ = {}
           /\ lc_out.cols = X.cols
           /\ lc_out.data = X.data

C7_Witness ==
    /\ pc = "lc_done"
    /\ Len(Evaluated) = 2
    /\ Len(X.cols) = 3
    /\ LinearlyIndependent(EvaluatedMatrix)
    /\ lc_iters = 0

\* the entry of the matrix as passed that relates the labels a and b
EntryOf(m, a, b) ==
    m.vals[CHOOSE r \in 1..Len(m.rows) : m.rows[r] = a]
          [CHOOSE k \in 1..Len(m.cols) : m.cols[k] = b]

(* C11: between any two steps of filter_collinearity and on return, drops, *)
(* macor and corrz have the same length and their entries at one index     *)
(* describe one removal: feature_x is the dropped name, mac is the MAC     *)
(* recorded, feature_y is another column, the other one of the triggering  *)
(* pair, and abs_corr is the correlation of that pair, not NaN and at or   *)
(* above the threshold.                                                    *)
C11_ParallelLists ==
    /\ Len(drops) = Len(macor)
    /\ Len(drops) = Len(corrz)
    /\ \A k \in 1..Len(drops) :
          /\ corrz[k].feature_x = drops[k]
          /\ corrz[k].mac = macor[k]
          /\ corrz[k].feature_y # corrz[k].feature_x
          /\ corrz[k].feature_y \in Range(c0.cols)
          /\ corrz[k].abs_corr # NaN
          /\ corrz[k].abs_corr >= threshold
          /\ corrz[k].abs_corr = EntryOf(c0, corrz[k].feature_y, corrz[k].feature_x)
    /\ Len(drops) >= 1 =>
          {Last(corrz).feature_x, Last(corrz).feature_y} = {lastdrop.nm, lastdrop.other}

C11_Witness ==
    /\ pc = "done"
    /\ Len(drops) = 2
    /\ corrz[1].feature_x # corrz[2].feature_x

\* the sum of the non-NaN entries of column k of m in the rows 1..r whose
\* label is not nm, and their number
RECURSIVE OthersSum(_, _, _, _)
OthersSum(m, k, nm, r) ==
    IF r = 0 THEN 0
    ELSE OthersSum(m, k, nm, r - 1)
         + (IF m.rows[r] # nm /\ m.vals[r][k] # NaN THEN m.vals[r][k] ELSE 0)

OthersCount(m, k, nm) ==
    Cardinality({r \in 1..Len(m.rows) : m.rows[r] # nm /\ m.vals[r][k] # NaN})

\* the mean absolute correlation of column nm with the other columns of m
MacOf(m, nm) ==
    LET k == CHOOSE q \in 1..Len(m.cols) : m.cols[q] = nm
    IN IF OthersCount(m, k, nm) = 0 THEN NaN
       ELSE (OthersSum(m, k, nm, Len(m.rows)) * MeanScale) \div OthersCount(m, k, nm)

(* C12: for a symmetric matrix, every removal appends to macor, and stores *)
(* in the mac of its record, the mean absolute correlation of the dropped  *)
(* column itself over the matrix as it is when the decision is taken; the  *)
(* entries recorded earlier stay as they are.                              *)
C12_MacOfDroppedColumn ==
    [][ Len(drops') = Len(drops) + 1
        => /\ Last(macor') = MacOf(c, Last(drops'))
           /\ Last(corrz').mac = MacOf(c, Last(drops'))
           /\ SubSeq(macor', 1, Len(macor)) = macor
           /\ SubSeq(corrz', 1, Len(corrz)) = corrz ]_vars

C12_Witness ==
    /\ pc = "while"
    /\ Len(drops) >= 1
    /\ lastdrop.mn_1 # NaN
    /\ lastdrop.mn_2 # NaN
    /\ lastdrop.mn_1 < lastdrop.mn_2
    /\ Last(macor) = lastdrop.mn_2
    /\ Last(drops) = lastdrop.other

(* C13: a fit call that fails one of its precondition checks (non-finite *)
(* data, too few columns, a SparseFeatureDropper threshold outside      *)
(* [0, 1), a NearZeroVarianceFilterer strategy that is not one of the   *)
(* two, a ratio threshold not above 1.0) on a fitted instance leaves    *)
(* drop_, mean_abs_correlations_, correlations_, sparsity_ and var_ as  *)
(* they were before the call: neither the call, nor the step that      *)
(* raises, nor the return to the caller changes them, and the check     *)
(* raises on the first step of the call.                                *)
PreconditionErrors ==
    { "ValueError: Expected all entries to be finite",
      "ValueError: too few features",
      "ValueError: thresh must be a float between 0 (inclusive) and 1",
      "ValueError: strategy must be one of ('variance', 'ratio')",
      "ValueError: when strategy==\"ratio\", threshold must be greater than 1.0" }

EntryPcs == {"fit", "lc_fit", "sparse_fit", "nzv_fit"}

Estimators == {"fit", "lc", "sparse", "nzv"}

C13_FailedFitKeepsAttributes ==
    [][ (attrs.fitted /\ caller \in Estimators) =>
          /\ (pc' \in EntryPcs \cup {"idle"} /\ pc \notin EntryPcs) => attrs' = attrs
          /\ (pc' = "raised" /\ err' \in PreconditionErrors) =>
                (pc \in EntryPcs /\ attrs' = attrs) ]_vars

\* a MulticollinearityFilterer that was fitted and found a column to drop
\* is fitted again, and the call raises at a check
C13_Witness ==
    /\ caller = "fit"
    /\ pc = "raised"
    /\ err \in PreconditionErrors
    /\ attrs.fitted
    /\ attrs.drop_ # <<>>
    /\ attrs.correlations_ # <<>>


(* C14: fit_transform never alters the frame it is handed: from the call   *)
(* on, through the checks, every elimination pass and the final drop, the  *)
(* frame keeps its columns, their order and their values.                  *)
C14_InputFrameUntouched ==
    [][ (pc \in {"lc_fit", "lc_loop", "lc_done", "raised"}) => X' = X ]_vars

C14_Witness ==
    /\ pc = "lc_done"
    /\ lc_iters >= 1
    /\ attrs.drop_ # {}
    /\ Len(lc_out.cols) < Len(X.cols)
    /\ Len(X.cols) = MaxLcCols

(* C16: LinearCombinationFilterer asks for no minimum number of columns:   *)
(* a fit of a finite frame on fewer than 2 evaluated columns, given by     *)
(* name or being the whole of a narrow frame, raises nothing and ends with *)
(* an empty drop list.                                                     *)
C16_NoMinimumColumns ==
    (caller = "lc" /\ X.finite /\ Len(Evaluated) < 2)
        => /\ pc # "raised"
           /\ pc = "lc_done" => attrs.drop_ = {}

\* the absolute value of a coefficient compared with the tolerance 1/TolInv
AtTolerance(fr) == Abs(fr[1]) * TolInv = fr[2]
BelowTolerance(fr) == Abs(fr[1]) * TolInv < fr[2]
AboveTolerance(fr) == Abs(fr[1]) * TolInv > fr[2]

\* the independent columns named in the record of the dependent column k
Contributors(k) == Range(SubSeq(lc_list.d[k], 2, Len(lc_list.d[k])))

(* C15, as stated: a coefficient of absolute value exactly 1e-6 is zeroed, *)
(* so its independent column stays out of the dependency record, and one   *)
(* above 1e-6 is kept.                                                     *)
C15_ExactToleranceZeroed ==
    (pc = "enum_done" /\ ~lc_list.isNone)
        => \A k \in 1..Len(lc_list.d) : \A j \in 1..qr.rank :
              /\ AtTolerance(qr.coef[j][k]) => qr.pivot[j] \notin Contributors(k)
              /\ AboveTolerance(qr.coef[j][k]) => qr.pivot[j] \in Contributors(k)

(* C15, amended: a coefficient is zeroed only when its absolute value is   *)
(* strictly below 1e-6; one of exactly 1e-6, like any larger one, is kept, *)
(* and its independent column is in the dependency record.                 *)
C15_OnlyBelowToleranceZeroed ==
    (pc = "enum_done" /\ ~lc_list.isNone)
        => \A k \in 1..Len(lc_list.d) : \A j \in 1..qr.rank :
              /\ BelowTolerance(qr.coef[j][k]) => qr.pivot[j] \notin Contributors(k)
              /\ AtTolerance(qr.coef[j][k]) => qr.pivot[j] \in Contributors(k)
              /\ AboveTolerance(qr.coef[j][k]) => qr.pivot[j] \in Contributors(k)

C15_Witness ==
    /\ pc = "enum_done"
    /\ ~lc_list.isNone
    /\ qr.rank = 2
    /\ AtTolerance(qr.coef[1][1])
    /\ BelowTolerance(qr.coef[2][1])
    /\ qr.coef[2][1][1] # 0
    /\ Contributors(1) = {qr.pivot[1]}

(* C17: after SparseFeatureDropper.fit with a threshold in [0, 1), drop_   *)
(* holds exactly the names of the evaluated columns (cols, or all of them  *)
(* when cols is None) whose fraction of missing values is greater than the *)
(* threshold, whichever columns cols names and in whichever order; the     *)
(* fit raises nothing.                                                     *)
C17_DropsTheSparseEvaluatedColumns ==
    (caller = "sparse" /\ pc # "sparse_fit" /\ 0 <= threshold /\ threshold < MaxRows)
        => /\ pc = "sparse_done"
           /\ Range(attrs.drop_) =
                 { nm \in Range(Evaluated) :
                     X.nulls[CHOOSE k \in 1..Len(X.cols) : X.cols[k] = nm] > threshold }

(* C18: after FeatureRetainer.fit(X), drop_ names exactly the columns that *)
(* transform(X) removes: the columns transform returns and the names in    *)
(* drop_ are disjoint and together are all the columns of X, with cols a   *)
(* list of names and with cols None.                                       *)
C18_DropIsWhatTransformRemoves ==
    pc = "retainer_transformed"
        => /\ Range(tr_out) \cap Range(attrs.drop_) = {}
           /\ Range(tr_out) \cup Range(attrs.drop_) = Range(X.cols)

\* score a is at least score b, a NaN score being the lowest there is
AtLeast(a, b) == b = NaN \/ (a # NaN /\ a >= b)

\* the sequence lists some of the names 1..n in ascending order
InOriginalOrder(names) == \A a, b \in 1..Len(names) : a < b => names[a] < names[b]

(* C19: with a positive integer k and n scored features the drop list has  *)
(* max(0, n - k) names, in their original order, and every retained        *)
(* feature scores at least as high as every dropped one, NaN being the     *)
(* lowest score; with k == 'all' the drop list is empty; fit raises        *)
(* ValueError about k for any other k and for no k of these two kinds      *)
(* (with such a k it raises only when no target feature is given, and      *)
(* then selects nothing).                                                  *)
C19_KBestDrops ==
    (caller = "kbest" /\ pc # "kbest_fit")
        => LET n == Len(kb.scores)
               dropped == Range(kb.drop)
           IN IF kb.k.tag = "all" \/ (kb.k.tag = "int" /\ kb.k.v > 0)
              THEN /\ err # "ValueError: k must be a non-negative integer or \"all\""
                   /\ pc = "kbest_done" <=> ~kb.target_feature.isNone
                   /\ pc = "raised" <=> kb.target_feature.isNone
                   /\ pc = "raised" =>
                         /\ err = "ValueError: target_feature must be a string"
                         /\ kb.drop = <<>>
                   /\ (pc = "kbest_done" /\ kb.k.tag = "all") => kb.drop = <<>>
                   /\ (pc = "kbest_done" /\ kb.k.tag = "int") =>
                         /\ Len(kb.drop) = (IF n > kb.k.v THEN n - kb.k.v ELSE 0)
                         /\ dropped \subseteq 1..n
                         /\ InOriginalOrder(kb.drop)
                         /\ \A r \in (1..n) \ dropped : \A d \in dropped :
                               AtLeast(kb.scores[r], kb.scores[d])
              ELSE /\ pc = "raised"
                   /\ err = "ValueError: k must be a non-negative integer or \"all\""

C19_Witness ==
    /\ pc = "kbest_done"
    /\ ~kb.target_feature.isNone
    /\ kb.k.tag = "int"
    /\ kb.k.v = 2
    /\ kb.scores = <<2, NaN, 1, 1>>
    /\ kb.drop = <<2, 3>>

\* a measure of what filter_collinearity has left to do: the columns that
\* remain weigh most, then the place in the current scan
Variant ==
    Len(c.cols) * (MaxCols + 5)
    + (CASE pc = "check" -> MaxCols + 4
         [] pc = "while" /\ ~finished -> Len(c.cols) + 3
         [] pc = "for" -> 2 + Len(c.cols) - i
         [] pc = "while" /\ finished -> 1
         [] OTHER -> 0)

\* filter_collinearity is running on a square matrix of 2 or more columns
Running ==
    /\ caller = "direct"
    /\ Len(c0.cols) >= 2
    /\ Len(c0.rows) = Len(c0.cols)
    /\ pc \in {"check", "while", "for"}

(* C20: on a square matrix of p >= 2 columns filter_collinearity           *)
(* terminates: every step it takes lowers a natural-valued measure, so no  *)
(* run goes on for ever; `finished' becomes true only at the               *)
(* last column of a scan that went through the columns one by one and      *)
(* dropped nothing; a scan that does not finish removes exactly one        *)
(* column; and the scans number at most p.                                 *)
C20_ScansTerminate ==
    [][ Running =>
              /\ Variant' < Variant
              /\ Variant' >= 0
              /\ (~finished /\ finished') =>
                    /\ pc = "for"
                    /\ i = Len(c.cols) - 1
                    /\ c' = c
                    /\ drops' = drops
                    /\ Len(drops) = nscans - 1
              /\ (pc = "for" /\ pc' = "for") => (i' = i + 1 /\ c' = c)
              /\ (pc = "while" /\ pc' = "for") => i' = 0
              /\ (pc = "for" /\ pc' = "while" /\ ~finished') =>
                    /\ Len(c'.cols) = Len(c.cols) - 1
                    /\ Len(drops') = Len(drops) + 1
                    /\ Len(drops') = nscans
              /\ nscans' <= Len(c0.cols) ]_vars

C20_Witness ==
    /\ pc = "done"
    /\ caller = "direct"
    /\ Len(c0.cols) = 4
    /\ nscans = 3
    /\ Len(drops) = 2

\* a step of filter_collinearity that drops a column
DropStep == pc = "for" /\ Len(drops') = Len(drops) + 1

(* C21: at a drop decision where the mean absolute correlations of the     *)
(* scanned column and of its most-correlated partner are both defined and  *)
(* differ, the column removed is the one of the two with the strictly      *)
(* greater mean, and the other one is still in the matrix after the step.  *)
C21_GreaterMacDropped ==
    [][ DropStep =>
          LET nm == c.cols[i + 1]
              other == lastdrop'.other
              mn_1 == MacOf(c, nm)
              mn_2 == MacOf(c, other)
              greater == IF mn_1 > mn_2 THEN nm ELSE other
              lesser == IF mn_1 > mn_2 THEN other ELSE nm
          IN (mn_1 # NaN /\ mn_2 # NaN /\ mn_1 # mn_2) =>
                /\ Last(drops') = greater
                /\ greater \notin Range(c'.cols)
                /\ greater \notin Range(c'.rows)
                /\ lesser \in Range(c'.cols)
                /\ lesser \in Range(c'.rows) ]_vars

\* the scanned column had the greater mean and was dropped
C21_Witness ==
    /\ pc = "while"
    /\ Len(drops) >= 1
    /\ lastdrop.mn_1 # NaN
    /\ lastdrop.mn_2 # NaN
    /\ lastdrop.mn_1 > lastdrop.mn_2
    /\ Last(drops) = lastdrop.nm
    /\ lastdrop.other \in Range(c.cols)

(* C22: a drop ends its scan at once (no later column of that scan is      *)
(* examined), the next step starts a scan at the first column of the       *)
(* reduced matrix, and within a scan the columns are examined one after    *)
(* the other from left to right, the matrix unchanged between them.        *)
C22_RestartFromFirstColumn ==
    [][ (caller = "direct" /\ Len(c0.rows) = Len(c0.cols)) =>
          /\ DropStep =>
                /\ lastdrop'.nm = c.cols[i + 1]
                /\ pc' = "while"
                /\ ~finished'
                /\ Len(c'.cols) >= 1
          /\ (pc = "while" /\ ~finished) =>
                /\ pc' = "for"
                /\ i' = 0
                /\ c' = c
                /\ drops' = drops
          /\ (pc = "for" /\ pc' = "for") =>
                /\ i' = i + 1
                /\ i < Len(c.cols)
                /\ c' = c
                /\ drops' = drops ]_vars

\* a scan is at the first column, after a drop that a later column triggered
C22_Witness ==
    /\ caller = "direct"
    /\ pc = "for"
    /\ i = 0
    /\ Len(drops) >= 1
    /\ lastdrop.nm \in Range(c.cols)
    /\ PosOf(c.cols, lastdrop.nm) > 1

\* the mean of the correlations of the column nm with the other columns of m
MeanOthers(m, nm) == NanMean(SeriesValues(SeriesDrop(Column(m, nm), nm)))

\* the pairs of columns of m that are correlated at or above the threshold
CorrelatedPairs(m, thr) ==
    { pr \in Range(m.cols) \X Range(m.cols) :
        /\ pr[1] < pr[2]
        /\ ~IsNull(EntryOf(m, pr[1], pr[2]))
        /\ EntryOf(m, pr[1], pr[2]) >= thr }

\* the position the column nm had in the matrix of the first run
FirstPos(nm) == prior.order[PosOf(c0.cols, nm)]

(* C23: filter_collinearity run a second time on the same correlations and *)
(* threshold, the columns in some order.  In the same order it gives the   *)
(* same drops, means, records and surviving columns.  When exactly one     *)
(* pair of three or more columns is correlated at or above the threshold,  *)
(* each run drops one column of the pair: the one with the greater mean    *)
(* whatever the order, and on equal means the one that comes later in the  *)
(* order of that run; so the surviving columns of the two runs differ      *)
(* exactly when the means are equal and the two columns have changed       *)
(* places.  The witness is such a matrix and threshold.                    *)
C23_OrderDecidesTiedPair ==
    (prior.run /\ pc = "done")
        => /\ prior.order = Iota(Len(c0.cols))
                => /\ drops = prior.drops
                   /\ macor = prior.macor
                   /\ corrz = prior.corrz
                   /\ c.cols = prior.cols
           /\ \A pr \in CorrelatedPairs(c0, threshold) :
                (CorrelatedPairs(c0, threshold) = {pr} /\ Len(c0.cols) >= 3)
                    => LET x == pr[1]
                           y == pr[2]
                           mx == MeanOthers(c0, x)
                           my == MeanOthers(c0, y)
                           later_now ==
                               IF PosOf(c0.cols, x) < PosOf(c0.cols, y) THEN y ELSE x
                           later_then == IF FirstPos(x) < FirstPos(y) THEN y ELSE x
                       IN /\ Len(drops) = 1
                          /\ Len(prior.drops) = 1
                          /\ mx > my => drops[1] = x /\ prior.drops[1] = x
                          /\ mx < my => drops[1] = y /\ prior.drops[1] = y
                          /\ mx = my => drops[1] = later_now /\ prior.drops[1] = later_then
                          /\ Range(c.cols) # Range(prior.cols)
                                <=> (mx = my /\ later_now # later_then)

C23_Witness ==
    /\ prior.run
    /\ pc = "done"
    /\ Len(c0.cols) >= 3
    /\ Cardinality(CorrelatedPairs(c0, threshold)) = 1
    /\ prior.order # Iota(Len(c0.cols))
    /\ Range(c.cols) # Range(prior.cols)

\* the labels of idx that are not among the names, in the order of idx
Without(idx, names) == SelectSeq(idx, LAMBDA nm : nm \notin Range(names))

(* C24: the matrix the caller passed to filter_collinearity is the one     *)
(* that shrinks: after every drop and on return it is square, its row      *)
(* labels are its column labels, these are the original labels without the *)
(* names in drops, in their original order, and every entry of a row and a *)
(* column that are left is the entry the caller passed.                    *)
C24_ShrinksInPlace ==
    (caller = "direct" /\ c0.rows = c0.cols /\ pc \in {"while", "for", "done"})
        => /\ Len(c.rows) = Len(c.cols)
           /\ c.rows = c.cols
           /\ c.cols = Without(c0.cols, drops)
           /\ Len(c.vals) = Len(c.rows)
           /\ \A r \in 1..Len(c.rows) :
                 /\ Len(c.vals[r]) = Len(c.cols)
                 /\ \A k \in 1..Len(c.cols) :
                       c.vals[r][k] = EntryOf(c0, c.rows[r], c.cols[k])

\* two columns are gone on return, one of them from between two that are left
C24_Witness ==
    /\ caller = "direct"
    /\ pc = "done"
    /\ Len(drops) = 2
    /\ c0.cols[2] \in Range(drops)
    /\ c.cols = <<c0.cols[1], c0.cols[3]>>

(* C25: from a square matrix of p >= 2 columns, the matrix never has fewer *)
(* than 2 columns: a drop happens only while 3 or more columns remain, at  *)
(* most p - 2 columns are dropped, and a 2-column matrix loses none        *)
(* whatever its correlation and the threshold.                             *)
C25_AtLeastTwoColumnsLeft ==
    [][ (caller = "direct" /\ Len(c0.cols) >= 2 /\ Len(c0.rows) = Len(c0.cols)) =>
          /\ Len(c.cols) >= 2
          /\ Len(c'.cols) >= 2
          /\ Len(c'.cols) # Len(c.cols) => Len(c.cols) >= 3
          /\ Len(drops') # Len(drops) => (Len(c.cols) >= 3 \/ drops' = <<>>)
          /\ Len(drops') <= Len(c0.cols) - 2
          /\ Len(c0.cols) = 2 => (drops' = <<>> /\ c' = c0) ]_vars

\* two columns correlated above the threshold: the function returns, both are left
C25_Witness ==
    /\ caller = "direct"
    /\ pc = "done"
    /\ Len(c0.cols) = 2
    /\ Len(c0.rows) = 2
    /\ c0.vals[1][2] > threshold
    /\ drops = <<>>
    /\ nscans = 1

(* C26: at every drop decision on a symmetric matrix the mean absolute     *)
(* correlation of the scanned column is defined, and so is the mean of its *)
(* partner; the partner is therefore never dropped for an undefined mean   *)
(* of the scanned column, and no mean that is recorded is NaN.             *)
C26_MeansDefined ==
    [][ DropStep =>
          /\ MacOf(c, c.cols[i + 1]) # NaN
          /\ MacOf(c, lastdrop'.other) # NaN
          /\ lastdrop'.mn_1 # NaN
          /\ lastdrop'.mn_2 # NaN
          /\ EntryOf(c, c.cols[i + 1], lastdrop'.other) # NaN
          /\ EntryOf(c, lastdrop'.other, c.cols[i + 1]) # NaN
          /\ Last(macor') # NaN
          /\ Last(corrz').mac # NaN ]_vars

\* a drop was decided on a column that has a NaN among its correlations
C26_Witness ==
    /\ pc = "while"
    /\ Len(drops) = 1
    /\ Last(macor) # NaN
    /\ \E nm \in Range(c0.cols) :
          /\ nm # lastdrop.nm
          /\ EntryOf(c0, nm, lastdrop.nm) = NaN

\* a pass of the elimination loop of LinearCombinationFilterer
LcPass == pc = "lc_loop" /\ pc' = "lc_loop"

\* the positions the dependency records of the pass name first
Dependents == {lc_list.d[k][1] : k \in 1..Len(lc_list.d)}

(* C27: a pass of the loop removes exactly the dependent columns of that   *)
(* pass: there is one record for each dependent column, the first index of *)
(* each is a column of its own, these columns and no others are removed,   *)
(* whatever the coefficients in the records; the columns that are left are *)
(* independent and each removed column depends on them, so their number is *)
(* the rank and p - rank columns are removed.                              *)
C27_BadAreTheDependentColumns ==
    [][ LcPass =>
          \A p \in {Len(lc_x)},
             left \in {SelectSeq(Iota(Len(lc_x)), LAMBDA j : j \notin Dependents)} :
             /\ ~lc_list.isNone
             /\ Dependents # {}
             /\ Dependents \subseteq 1..p
             /\ Cardinality(Dependents) = Len(lc_list.d)
             /\ lc_cols' = [j \in 1..Len(left) |-> lc_cols[left[j]]]
             /\ lc_x' = [j \in 1..Len(left) |-> lc_x[left[j]]]
             /\ Len(lc_drops') = Len(lc_drops) + Cardinality(Dependents)
             /\ Range(lc_drops') = Range(lc_drops) \cup {lc_cols[j] : j \in Dependents}
             /\ Independent(lc_x')
             /\ \A j \in Dependents : ~Independent(Append(lc_x', lc_x[j])) ]_vars

\* a pass took two dependent columns out of three, the rank being 1
C27_Witness ==
    /\ pc = "lc_loop"
    /\ lc_iters = 1
    /\ Len(X.cols) = 3
    /\ Len(lc_drops) = 2
    /\ Len(lc_cols) = 1

\* the sequence names no label twice
Distinct(names) == Cardinality(Range(names)) = Len(names)

(* C28: throughout the elimination loop and after it the working names    *)
(* and the working matrix have the same number of columns and the name at  *)
(* position j is the label of column j; the working names and the drop     *)
(* list have no name in common and together are the evaluated columns; no  *)
(* name is in the drop list twice, and drop_ is those names, each once.    *)
C28_NamesAndMatrixAligned ==
    (caller = "lc" /\ pc \in {"lc_loop", "lc_done"})
        => /\ Len(lc_cols) = Len(lc_x)
           /\ \A j \in 1..Len(lc_cols) :
                 /\ lc_cols[j] \in Range(X.cols)
                 /\ lc_x[j] = X.data[PosOf(X.cols, lc_cols[j])]
           /\ Range(lc_cols) \cap Range(lc_drops) = {}
           /\ Range(lc_cols) \cup Range(lc_drops) = Range(Evaluated)
           /\ Distinct(lc_cols)
           /\ Distinct(lc_drops)
           /\ lc_cols = Without(Evaluated, lc_drops)
           /\ pc = "lc_done" =>
                 /\ attrs.drop_ = Range(lc_drops)
                 /\ Cardinality(attrs.drop_) = Len(lc_drops)
                 /\ attrs.drop_ \subseteq Range(Evaluated)

\* two of three columns were evaluated and one of the two was dropped
C28_Witness ==
    /\ caller = "lc"
    /\ pc = "lc_done"
    /\ Len(X.cols) = 3
    /\ ~self_cols.isNone
    /\ Len(self_cols.names) = 2
    /\ Len(lc_drops) = 1
    /\ Len(lc_cols) = 1

====
